---- MODULE Spec2Model ----
(***************************************************************************)
(* Model of the cleanup engine of src/manager.rs: Manager::validate,       *)
(* Manager::execute and the helper module (remove, childern, find,         *)
(* pattern_check, remove_item) over an explicit filesystem.                *)
(*                                                                         *)
(* A string is the sequence of its characters, a character its code point. *)
(* A path is the sequence of the pieces its separators cut it into: "a/b"  *)
(* is <<a, b>>, "a/" is <<a, <<>>>>, a leading separator is the piece      *)
(* RootDir and the empty path is <<>>.  The filesystem is a function from  *)
(* the existing nodes, each named by the sequence of names that leads to   *)
(* it from the root directory, to an entry [type, mode, target].  The      *)
(* working directory of the process is the root.  An Option value is the   *)
(* empty set (None) or a singleton (Some).                                 *)
(*                                                                         *)
(* One action is one call of the program on the operating system (a stat,  *)
(* the opening of a directory, one turn of the loop over its entries, an   *)
(* unlink, each of those inside fs::remove_dir_all) together with the      *)
(* lines printed after it.                                                 *)
(***************************************************************************)
EXTENDS Integers, Sequences, FiniteSets, TLC

\* ------------------------------------------------------------------ bounds
\* Largest number of entries below the destination in an initial tree.
MaxEntries == 2
\* Largest depth of an entry below the destination in an initial tree.
MaxDepth == 2
\* Largest number of rules in a JSON configuration document.
MaxRules == 2
\* Largest number of entries below the destination in an initial tree of the
\* runs in which other processes delete entries.
MaxLiveEntries == 2

\* ------------------------------------------------------------------ strings
\* The value of an expression, held in the one-element set only: v \in Only(e)
\* binds v to it.
Only(e) == {e}
The(S) == CHOOSE x \in S : TRUE

\* The characters U+0020 .. U+007E in their order (U+0060 by its name), and
\* the string a literal written with them stands for
Printable ==
    <<" ", "!", "\"", "#", "$", "%", "&", "'", "(", ")", "*", "+", ",", "-", ".", "/",
      "0", "1", "2", "3", "4", "5", "6", "7", "8", "9", ":", ";", "<", "=", ">", "?",
      "@", "A", "B", "C", "D", "E", "F", "G", "H", "I", "J", "K", "L", "M", "N", "O",
      "P", "Q", "R", "S", "T", "U", "V", "W", "X", "Y", "Z", "[", "\\", "]", "^", "_",
      "U+0060", "a", "b", "c", "d", "e", "f", "g", "h", "i", "j", "k", "l", "m", "n", "o",
      "p", "q", "r", "s", "t", "u", "v", "w", "x", "y", "z", "{", "|", "}", "~">>
Code(ch) == 31 + CHOOSE i \in DOMAIN Printable : Printable[i] = ch
Str(s) == [i \in DOMAIN s |-> Code(s[i])]

\* char::to_lowercase (Unicode 17.0): the characters first, first + step, ..
\* last of a run <<first, last, step, lower>> have the lower case characters
\* lower, lower + step, ..; one character has a lower case of two characters
LOWERCASE_TABLE ==
    {
     <<\h0041, \h005A, 1, \h0061>>, <<\h00C0, \h00D6, 1, \h00E0>>, <<\h00D8, \h00DE, 1, \h00F8>>,
     <<\h0100, \h012E, 2, \h0101>>, <<\h0132, \h0136, 2, \h0133>>, <<\h0139, \h0147, 2, \h013A>>,
     <<\h014A, \h0176, 2, \h014B>>, <<\h0178, \h0178, 1, \h00FF>>, <<\h0179, \h017D, 2, \h017A>>,
     <<\h0181, \h0181, 1, \h0253>>, <<\h0182, \h0184, 2, \h0183>>, <<\h0186, \h0186, 1, \h0254>>,
     <<\h0187, \h0187, 1, \h0188>>, <<\h0189, \h018A, 1, \h0256>>, <<\h018B, \h018B, 1, \h018C>>,
     <<\h018E, \h018E, 1, \h01DD>>, <<\h018F, \h018F, 1, \h0259>>, <<\h0190, \h0190, 1, \h025B>>,
     <<\h0191, \h0191, 1, \h0192>>, <<\h0193, \h0193, 1, \h0260>>, <<\h0194, \h0194, 1, \h0263>>,
     <<\h0196, \h0196, 1, \h0269>>, <<\h0197, \h0197, 1, \h0268>>, <<\h0198, \h0198, 1, \h0199>>,
     <<\h019C, \h019C, 1, \h026F>>, <<\h019D, \h019D, 1, \h0272>>, <<\h019F, \h019F, 1, \h0275>>,
     <<\h01A0, \h01A4, 2, \h01A1>>, <<\h01A6, \h01A6, 1, \h0280>>, <<\h01A7, \h01A7, 1, \h01A8>>,
     <<\h01A9, \h01A9, 1, \h0283>>, <<\h01AC, \h01AC, 1, \h01AD>>, <<\h01AE, \h01AE, 1, \h0288>>,
     <<\h01AF, \h01AF, 1, \h01B0>>, <<\h01B1, \h01B2, 1, \h028A>>, <<\h01B3, \h01B5, 2, \h01B4>>,
     <<\h01B7, \h01B7, 1, \h0292>>, <<\h01B8, \h01B8, 1, \h01B9>>, <<\h01BC, \h01BC, 1, \h01BD>>,
     <<\h01C4, \h01C4, 1, \h01C6>>, <<\h01C5, \h01C5, 1, \h01C6>>, <<\h01C7, \h01C7, 1, \h01C9>>,
     <<\h01C8, \h01C8, 1, \h01C9>>, <<\h01CA, \h01CA, 1, \h01CC>>, <<\h01CB, \h01DB, 2, \h01CC>>,
     <<\h01DE, \h01EE, 2, \h01DF>>, <<\h01F1, \h01F1, 1, \h01F3>>, <<\h01F2, \h01F4, 2, \h01F3>>,
     <<\h01F6, \h01F6, 1, \h0195>>, <<\h01F7, \h01F7, 1, \h01BF>>, <<\h01F8, \h021E, 2, \h01F9>>,
     <<\h0220, \h0220, 1, \h019E>>, <<\h0222, \h0232, 2, \h0223>>, <<\h023A, \h023A, 1, \h2C65>>,
     <<\h023B, \h023B, 1, \h023C>>, <<\h023D, \h023D, 1, \h019A>>, <<\h023E, \h023E, 1, \h2C66>>,
     <<\h0241, \h0241, 1, \h0242>>, <<\h0243, \h0243, 1, \h0180>>, <<\h0244, \h0244, 1, \h0289>>,
     <<\h0245, \h0245, 1, \h028C>>, <<\h0246, \h024E, 2, \h0247>>, <<\h0370, \h0372, 2, \h0371>>,
     <<\h0376, \h0376, 1, \h0377>>, <<\h037F, \h037F, 1, \h03F3>>, <<\h0386, \h0386, 1, \h03AC>>,
     <<\h0388, \h038A, 1, \h03AD>>, <<\h038C, \h038C, 1, \h03CC>>, <<\h038E, \h038F, 1, \h03CD>>,
     <<\h0391, \h03A1, 1, \h03B1>>, <<\h03A3, \h03AB, 1, \h03C3>>, <<\h03CF, \h03CF, 1, \h03D7>>,
     <<\h03D8, \h03EE, 2, \h03D9>>, <<\h03F4, \h03F4, 1, \h03B8>>, <<\h03F7, \h03F7, 1, \h03F8>>,
     <<\h03F9, \h03F9, 1, \h03F2>>, <<\h03FA, \h03FA, 1, \h03FB>>, <<\h03FD, \h03FF, 1, \h037B>>,
     <<\h0400, \h040F, 1, \h0450>>, <<\h0410, \h042F, 1, \h0430>>, <<\h0460, \h0480, 2, \h0461>>,
     <<\h048A, \h04BE, 2, \h048B>>, <<\h04C0, \h04C0, 1, \h04CF>>, <<\h04C1, \h04CD, 2, \h04C2>>,
     <<\h04D0, \h052E, 2, \h04D1>>, <<\h0531, \h0556, 1, \h0561>>, <<\h10A0, \h10C5, 1, \h2D00>>,
     <<\h10C7, \h10C7, 1, \h2D27>>, <<\h10CD, \h10CD, 1, \h2D2D>>, <<\h13A0, \h13EF, 1, \hAB70>>,
     <<\h13F0, \h13F5, 1, \h13F8>>, <<\h1C89, \h1C89, 1, \h1C8A>>, <<\h1C90, \h1CBA, 1, \h10D0>>,
     <<\h1CBD, \h1CBF, 1, \h10FD>>, <<\h1E00, \h1E94, 2, \h1E01>>, <<\h1E9E, \h1E9E, 1, \h00DF>>,
     <<\h1EA0, \h1EFE, 2, \h1EA1>>, <<\h1F08, \h1F0F, 1, \h1F00>>, <<\h1F18, \h1F1D, 1, \h1F10>>,
     <<\h1F28, \h1F2F, 1, \h1F20>>, <<\h1F38, \h1F3F, 1, \h1F30>>, <<\h1F48, \h1F4D, 1, \h1F40>>,
     <<\h1F59, \h1F5F, 2, \h1F51>>, <<\h1F68, \h1F6F, 1, \h1F60>>, <<\h1F88, \h1F8F, 1, \h1F80>>,
     <<\h1F98, \h1F9F, 1, \h1F90>>, <<\h1FA8, \h1FAF, 1, \h1FA0>>, <<\h1FB8, \h1FB9, 1, \h1FB0>>,
     <<\h1FBA, \h1FBB, 1, \h1F70>>, <<\h1FBC, \h1FBC, 1, \h1FB3>>, <<\h1FC8, \h1FCB, 1, \h1F72>>,
     <<\h1FCC, \h1FCC, 1, \h1FC3>>, <<\h1FD8, \h1FD9, 1, \h1FD0>>, <<\h1FDA, \h1FDB, 1, \h1F76>>,
     <<\h1FE8, \h1FE9, 1, \h1FE0>>, <<\h1FEA, \h1FEB, 1, \h1F7A>>, <<\h1FEC, \h1FEC, 1, \h1FE5>>,
     <<\h1FF8, \h1FF9, 1, \h1F78>>, <<\h1FFA, \h1FFB, 1, \h1F7C>>, <<\h1FFC, \h1FFC, 1, \h1FF3>>,
     <<\h2126, \h2126, 1, \h03C9>>, <<\h212A, \h212A, 1, \h006B>>, <<\h212B, \h212B, 1, \h00E5>>,
     <<\h2132, \h2132, 1, \h214E>>, <<\h2160, \h216F, 1, \h2170>>, <<\h2183, \h2183, 1, \h2184>>,
     <<\h24B6, \h24CF, 1, \h24D0>>, <<\h2C00, \h2C2F, 1, \h2C30>>, <<\h2C60, \h2C60, 1, \h2C61>>,
     <<\h2C62, \h2C62, 1, \h026B>>, <<\h2C63, \h2C63, 1, \h1D7D>>, <<\h2C64, \h2C64, 1, \h027D>>,
     <<\h2C67, \h2C6B, 2, \h2C68>>, <<\h2C6D, \h2C6D, 1, \h0251>>, <<\h2C6E, \h2C6E, 1, \h0271>>,
     <<\h2C6F, \h2C6F, 1, \h0250>>, <<\h2C70, \h2C70, 1, \h0252>>, <<\h2C72, \h2C72, 1, \h2C73>>,
     <<\h2C75, \h2C75, 1, \h2C76>>, <<\h2C7E, \h2C7F, 1, \h023F>>, <<\h2C80, \h2CE2, 2, \h2C81>>,
     <<\h2CEB, \h2CED, 2, \h2CEC>>, <<\h2CF2, \h2CF2, 1, \h2CF3>>, <<\hA640, \hA66C, 2, \hA641>>,
     <<\hA680, \hA69A, 2, \hA681>>, <<\hA722, \hA72E, 2, \hA723>>, <<\hA732, \hA76E, 2, \hA733>>,
     <<\hA779, \hA77B, 2, \hA77A>>, <<\hA77D, \hA77D, 1, \h1D79>>, <<\hA77E, \hA786, 2, \hA77F>>,
     <<\hA78B, \hA78B, 1, \hA78C>>, <<\hA78D, \hA78D, 1, \h0265>>, <<\hA790, \hA792, 2, \hA791>>,
     <<\hA796, \hA7A8, 2, \hA797>>, <<\hA7AA, \hA7AA, 1, \h0266>>, <<\hA7AB, \hA7AB, 1, \h025C>>,
     <<\hA7AC, \hA7AC, 1, \h0261>>, <<\hA7AD, \hA7AD, 1, \h026C>>, <<\hA7AE, \hA7AE, 1, \h026A>>,
     <<\hA7B0, \hA7B0, 1, \h029E>>, <<\hA7B1, \hA7B1, 1, \h0287>>, <<\hA7B2, \hA7B2, 1, \h029D>>,
     <<\hA7B3, \hA7B3, 1, \hAB53>>, <<\hA7B4, \hA7C2, 2, \hA7B5>>, <<\hA7C4, \hA7C4, 1, \hA794>>,
     <<\hA7C5, \hA7C5, 1, \h0282>>, <<\hA7C6, \hA7C6, 1, \h1D8E>>, <<\hA7C7, \hA7C9, 2, \hA7C8>>,
     <<\hA7CB, \hA7CB, 1, \h0264>>, <<\hA7CC, \hA7DA, 2, \hA7CD>>, <<\hA7DC, \hA7DC, 1, \h019B>>,
     <<\hA7F5, \hA7F5, 1, \hA7F6>>, <<\hFF21, \hFF3A, 1, \hFF41>>, <<\h10400, \h10427, 1, \h10428>>,
     <<\h104B0, \h104D3, 1, \h104D8>>, <<\h10570, \h1057A, 1, \h10597>>, <<\h1057C, \h1058A, 1, \h105A3>>,
     <<\h1058C, \h10592, 1, \h105B3>>, <<\h10594, \h10595, 1, \h105BB>>, <<\h10C80, \h10CB2, 1, \h10CC0>>,
     <<\h10D50, \h10D65, 1, \h10D70>>, <<\h118A0, \h118BF, 1, \h118C0>>, <<\h16E40, \h16E5F, 1, \h16E60>>,
     <<\h16EA0, \h16EB8, 1, \h16EBB>>, <<\h1E900, \h1E921, 1, \h1E922>>
    }
LOWERCASE_TABLE_MULTI == {<<\h0130, <<\h0069, \h0307>>>>}

\* The characters char::to_lowercase changes, and what it makes of them
Upper ==
    UNION {{c \in r[1]..r[2] : (c - r[1]) % r[3] = 0} : r \in LOWERCASE_TABLE}
    \cup {m[1] : m \in LOWERCASE_TABLE_MULTI}
LowerOf ==
    [c \in Upper |->
        IF \E m \in LOWERCASE_TABLE_MULTI : m[1] = c
        THEN (CHOOSE m \in LOWERCASE_TABLE_MULTI : m[1] = c)[2]
        ELSE LET r == CHOOSE r \in LOWERCASE_TABLE :
                          r[1] <= c /\ c <= r[2] /\ (c - r[1]) % r[3] = 0
             IN  <<c + r[4] - r[1]>>]

\* The capital sigma becomes the final sigma at the end of a word: after a
\* cased letter and not before one, characters that case ignores skipped.
Sigma == \h03A3
SmallSigma == \h03C3
FinalSigma == \h03C2
\* The properties Cased and Case_Ignorable (Unicode 17.0), as ranges
Cased ==
    UNION {r[1]..r[2] : r \in {
     <<\h0041, \h005A>>, <<\h0061, \h007A>>, <<\h00AA, \h00AA>>, <<\h00B5, \h00B5>>,
     <<\h00BA, \h00BA>>, <<\h00C0, \h00D6>>, <<\h00D8, \h00F6>>, <<\h00F8, \h01BA>>,
     <<\h01BC, \h01BF>>, <<\h01C4, \h0293>>, <<\h0296, \h02B8>>, <<\h02C0, \h02C1>>,
     <<\h02E0, \h02E4>>, <<\h0345, \h0345>>, <<\h0370, \h0373>>, <<\h0376, \h0377>>,
     <<\h037A, \h037D>>, <<\h037F, \h037F>>, <<\h0386, \h0386>>, <<\h0388, \h038A>>,
     <<\h038C, \h038C>>, <<\h038E, \h03A1>>, <<\h03A3, \h03F5>>, <<\h03F7, \h0481>>,
     <<\h048A, \h052F>>, <<\h0531, \h0556>>, <<\h0560, \h0588>>, <<\h10A0, \h10C5>>,
     <<\h10C7, \h10C7>>, <<\h10CD, \h10CD>>, <<\h10D0, \h10FA>>, <<\h10FC, \h10FF>>,
     <<\h13A0, \h13F5>>, <<\h13F8, \h13FD>>, <<\h1C80, \h1C8A>>, <<\h1C90, \h1CBA>>,
     <<\h1CBD, \h1CBF>>, <<\h1D00, \h1DBF>>, <<\h1E00, \h1F15>>, <<\h1F18, \h1F1D>>,
     <<\h1F20, \h1F45>>, <<\h1F48, \h1F4D>>, <<\h1F50, \h1F57>>, <<\h1F59, \h1F59>>,
     <<\h1F5B, \h1F5B>>, <<\h1F5D, \h1F5D>>, <<\h1F5F, \h1F7D>>, <<\h1F80, \h1FB4>>,
     <<\h1FB6, \h1FBC>>, <<\h1FBE, \h1FBE>>, <<\h1FC2, \h1FC4>>, <<\h1FC6, \h1FCC>>,
     <<\h1FD0, \h1FD3>>, <<\h1FD6, \h1FDB>>, <<\h1FE0, \h1FEC>>, <<\h1FF2, \h1FF4>>,
     <<\h1FF6, \h1FFC>>, <<\h2071, \h2071>>, <<\h207F, \h207F>>, <<\h2090, \h209C>>,
     <<\h2102, \h2102>>, <<\h2107, \h2107>>, <<\h210A, \h2113>>, <<\h2115, \h2115>>,
     <<\h2119, \h211D>>, <<\h2124, \h2124>>, <<\h2126, \h2126>>, <<\h2128, \h2128>>,
     <<\h212A, \h212D>>, <<\h212F, \h2134>>, <<\h2139, \h2139>>, <<\h213C, \h213F>>,
     <<\h2145, \h2149>>, <<\h214E, \h214E>>, <<\h2160, \h217F>>, <<\h2183, \h2184>>,
     <<\h24B6, \h24E9>>, <<\h2C00, \h2CE4>>, <<\h2CEB, \h2CEE>>, <<\h2CF2, \h2CF3>>,
     <<\h2D00, \h2D25>>, <<\h2D27, \h2D27>>, <<\h2D2D, \h2D2D>>, <<\hA640, \hA66D>>,
     <<\hA680, \hA69D>>, <<\hA722, \hA787>>, <<\hA78B, \hA78E>>, <<\hA790, \hA7DC>>,
     <<\hA7F1, \hA7F6>>, <<\hA7F8, \hA7FA>>, <<\hAB30, \hAB5A>>, <<\hAB5C, \hAB69>>,
     <<\hAB70, \hABBF>>, <<\hFB00, \hFB06>>, <<\hFB13, \hFB17>>, <<\hFF21, \hFF3A>>,
     <<\hFF41, \hFF5A>>, <<\h10400, \h1044F>>, <<\h104B0, \h104D3>>, <<\h104D8, \h104FB>>,
     <<\h10570, \h1057A>>, <<\h1057C, \h1058A>>, <<\h1058C, \h10592>>, <<\h10594, \h10595>>,
     <<\h10597, \h105A1>>, <<\h105A3, \h105B1>>, <<\h105B3, \h105B9>>, <<\h105BB, \h105BC>>,
     <<\h10780, \h10780>>, <<\h10783, \h10785>>, <<\h10787, \h107B0>>, <<\h107B2, \h107BA>>,
     <<\h10C80, \h10CB2>>, <<\h10CC0, \h10CF2>>, <<\h10D50, \h10D65>>, <<\h10D70, \h10D85>>,
     <<\h118A0, \h118DF>>, <<\h16E40, \h16E7F>>, <<\h16EA0, \h16EB8>>, <<\h16EBB, \h16ED3>>,
     <<\h1D400, \h1D454>>, <<\h1D456, \h1D49C>>, <<\h1D49E, \h1D49F>>, <<\h1D4A2, \h1D4A2>>,
     <<\h1D4A5, \h1D4A6>>, <<\h1D4A9, \h1D4AC>>, <<\h1D4AE, \h1D4B9>>, <<\h1D4BB, \h1D4BB>>,
     <<\h1D4BD, \h1D4C3>>, <<\h1D4C5, \h1D505>>, <<\h1D507, \h1D50A>>, <<\h1D50D, \h1D514>>,
     <<\h1D516, \h1D51C>>, <<\h1D51E, \h1D539>>, <<\h1D53B, \h1D53E>>, <<\h1D540, \h1D544>>,
     <<\h1D546, \h1D546>>, <<\h1D54A, \h1D550>>, <<\h1D552, \h1D6A5>>, <<\h1D6A8, \h1D6C0>>,
     <<\h1D6C2, \h1D6DA>>, <<\h1D6DC, \h1D6FA>>, <<\h1D6FC, \h1D714>>, <<\h1D716, \h1D734>>,
     <<\h1D736, \h1D74E>>, <<\h1D750, \h1D76E>>, <<\h1D770, \h1D788>>, <<\h1D78A, \h1D7A8>>,
     <<\h1D7AA, \h1D7C2>>, <<\h1D7C4, \h1D7CB>>, <<\h1DF00, \h1DF09>>, <<\h1DF0B, \h1DF1E>>,
     <<\h1DF25, \h1DF2A>>, <<\h1E030, \h1E06D>>, <<\h1E900, \h1E943>>, <<\h1F130, \h1F149>>,
     <<\h1F150, \h1F169>>, <<\h1F170, \h1F189>>
    }}
Case_Ignorable ==
    UNION {r[1]..r[2] : r \in {
     <<\h0027, \h0027>>, <<\h002E, \h002E>>, <<\h003A, \h003A>>, <<\h005E, \h005E>>,
     <<\h0060, \h0060>>, <<\h00A8, \h00A8>>, <<\h00AD, \h00AD>>, <<\h00AF, \h00AF>>,
     <<\h00B4, \h00B4>>, <<\h00B7, \h00B8>>, <<\h02B0, \h036F>>, <<\h0374, \h0375>>,
     <<\h037A, \h037A>>, <<\h0384, \h0385>>, <<\h0387, \h0387>>, <<\h0483, \h0489>>,
     <<\h0559, \h0559>>, <<\h055F, \h055F>>, <<\h0591, \h05BD>>, <<\h05BF, \h05BF>>,
     <<\h05C1, \h05C2>>, <<\h05C4, \h05C5>>, <<\h05C7, \h05C7>>, <<\h05F4, \h05F4>>,
     <<\h0600, \h0605>>, <<\h0610, \h061A>>, <<\h061C, \h061C>>, <<\h0640, \h0640>>,
     <<\h064B, \h065F>>, <<\h0670, \h0670>>, <<\h06D6, \h06DD>>, <<\h06DF, \h06E8>>,
     <<\h06EA, \h06ED>>, <<\h070F, \h070F>>, <<\h0711, \h0711>>, <<\h0730, \h074A>>,
     <<\h07A6, \h07B0>>, <<\h07EB, \h07F5>>, <<\h07FA, \h07FA>>, <<\h07FD, \h07FD>>,
     <<\h0816, \h082D>>, <<\h0859, \h085B>>, <<\h0888, \h0888>>, <<\h0890, \h0891>>,
     <<\h0897, \h089F>>, <<\h08C9, \h0902>>, <<\h093A, \h093A>>, <<\h093C, \h093C>>,
     <<\h0941, \h0948>>, <<\h094D, \h094D>>, <<\h0951, \h0957>>, <<\h0962, \h0963>>,
     <<\h0971, \h0971>>, <<\h0981, \h0981>>, <<\h09BC, \h09BC>>, <<\h09C1, \h09C4>>,
     <<\h09CD, \h09CD>>, <<\h09E2, \h09E3>>, <<\h09FE, \h09FE>>, <<\h0A01, \h0A02>>,
     <<\h0A3C, \h0A3C>>, <<\h0A41, \h0A42>>, <<\h0A47, \h0A48>>, <<\h0A4B, \h0A4D>>,
     <<\h0A51, \h0A51>>, <<\h0A70, \h0A71>>, <<\h0A75, \h0A75>>, <<\h0A81, \h0A82>>,
     <<\h0ABC, \h0ABC>>, <<\h0AC1, \h0AC5>>, <<\h0AC7, \h0AC8>>, <<\h0ACD, \h0ACD>>,
     <<\h0AE2, \h0AE3>>, <<\h0AFA, \h0AFF>>, <<\h0B01, \h0B01>>, <<\h0B3C, \h0B3C>>,
     <<\h0B3F, \h0B3F>>, <<\h0B41, \h0B44>>, <<\h0B4D, \h0B4D>>, <<\h0B55, \h0B56>>,
     <<\h0B62, \h0B63>>, <<\h0B82, \h0B82>>, <<\h0BC0, \h0BC0>>, <<\h0BCD, \h0BCD>>,
     <<\h0C00, \h0C00>>, <<\h0C04, \h0C04>>, <<\h0C3C, \h0C3C>>, <<\h0C3E, \h0C40>>,
     <<\h0C46, \h0C48>>, <<\h0C4A, \h0C4D>>, <<\h0C55, \h0C56>>, <<\h0C62, \h0C63>>,
     <<\h0C81, \h0C81>>, <<\h0CBC, \h0CBC>>, <<\h0CBF, \h0CBF>>, <<\h0CC6, \h0CC6>>,
     <<\h0CCC, \h0CCD>>, <<\h0CE2, \h0CE3>>, <<\h0D00, \h0D01>>, <<\h0D3B, \h0D3C>>,
     <<\h0D41, \h0D44>>, <<\h0D4D, \h0D4D>>, <<\h0D62, \h0D63>>, <<\h0D81, \h0D81>>,
     <<\h0DCA, \h0DCA>>, <<\h0DD2, \h0DD4>>, <<\h0DD6, \h0DD6>>, <<\h0E31, \h0E31>>,
     <<\h0E34, \h0E3A>>, <<\h0E46, \h0E4E>>, <<\h0EB1, \h0EB1>>, <<\h0EB4, \h0EBC>>,
     <<\h0EC6, \h0EC6>>, <<\h0EC8, \h0ECE>>, <<\h0F18, \h0F19>>, <<\h0F35, \h0F35>>,
     <<\h0F37, \h0F37>>, <<\h0F39, \h0F39>>, <<\h0F71, \h0F7E>>, <<\h0F80, \h0F84>>,
     <<\h0F86, \h0F87>>, <<\h0F8D, \h0F97>>, <<\h0F99, \h0FBC>>, <<\h0FC6, \h0FC6>>,
     <<\h102D, \h1030>>, <<\h1032, \h1037>>, <<\h1039, \h103A>>, <<\h103D, \h103E>>,
     <<\h1058, \h1059>>, <<\h105E, \h1060>>, <<\h1071, \h1074>>, <<\h1082, \h1082>>,
     <<\h1085, \h1086>>, <<\h108D, \h108D>>, <<\h109D, \h109D>>, <<\h10FC, \h10FC>>,
     <<\h135D, \h135F>>, <<\h1712, \h1714>>, <<\h1732, \h1733>>, <<\h1752, \h1753>>,
     <<\h1772, \h1773>>, <<\h17B4, \h17B5>>, <<\h17B7, \h17BD>>, <<\h17C6, \h17C6>>,
     <<\h17C9, \h17D3>>, <<\h17D7, \h17D7>>, <<\h17DD, \h17DD>>, <<\h180B, \h180F>>,
     <<\h1843, \h1843>>, <<\h1885, \h1886>>, <<\h18A9, \h18A9>>, <<\h1920, \h1922>>,
     <<\h1927, \h1928>>, <<\h1932, \h1932>>, <<\h1939, \h193B>>, <<\h1A17, \h1A18>>,
     <<\h1A1B, \h1A1B>>, <<\h1A56, \h1A56>>, <<\h1A58, \h1A5E>>, <<\h1A60, \h1A60>>,
     <<\h1A62, \h1A62>>, <<\h1A65, \h1A6C>>, <<\h1A73, \h1A7C>>, <<\h1A7F, \h1A7F>>,
     <<\h1AA7, \h1AA7>>, <<\h1AB0, \h1ADD>>, <<\h1AE0, \h1AEB>>, <<\h1B00, \h1B03>>,
     <<\h1B34, \h1B34>>, <<\h1B36, \h1B3A>>, <<\h1B3C, \h1B3C>>, <<\h1B42, \h1B42>>,
     <<\h1B6B, \h1B73>>, <<\h1B80, \h1B81>>, <<\h1BA2, \h1BA5>>, <<\h1BA8, \h1BA9>>,
     <<\h1BAB, \h1BAD>>, <<\h1BE6, \h1BE6>>, <<\h1BE8, \h1BE9>>, <<\h1BED, \h1BED>>,
     <<\h1BEF, \h1BF1>>, <<\h1C2C, \h1C33>>, <<\h1C36, \h1C37>>, <<\h1C78, \h1C7D>>,
     <<\h1CD0, \h1CD2>>, <<\h1CD4, \h1CE0>>, <<\h1CE2, \h1CE8>>, <<\h1CED, \h1CED>>,
     <<\h1CF4, \h1CF4>>, <<\h1CF8, \h1CF9>>, <<\h1D2C, \h1D6A>>, <<\h1D78, \h1D78>>,
     <<\h1D9B, \h1DFF>>, <<\h1FBD, \h1FBD>>, <<\h1FBF, \h1FC1>>, <<\h1FCD, \h1FCF>>,
     <<\h1FDD, \h1FDF>>, <<\h1FED, \h1FEF>>, <<\h1FFD, \h1FFE>>, <<\h200B, \h200F>>,
     <<\h2018, \h2019>>, <<\h2024, \h2024>>, <<\h2027, \h2027>>, <<\h202A, \h202E>>,
     <<\h2060, \h2064>>, <<\h2066, \h206F>>, <<\h2071, \h2071>>, <<\h207F, \h207F>>,
     <<\h2090, \h209C>>, <<\h20D0, \h20F0>>, <<\h2C7C, \h2C7D>>, <<\h2CEF, \h2CF1>>,
     <<\h2D6F, \h2D6F>>, <<\h2D7F, \h2D7F>>, <<\h2DE0, \h2DFF>>, <<\h2E2F, \h2E2F>>,
     <<\h3005, \h3005>>, <<\h302A, \h302D>>, <<\h3031, \h3035>>, <<\h303B, \h303B>>,
     <<\h3099, \h309E>>, <<\h30FC, \h30FE>>, <<\hA015, \hA015>>, <<\hA4F8, \hA4FD>>,
     <<\hA60C, \hA60C>>, <<\hA66F, \hA672>>, <<\hA674, \hA67D>>, <<\hA67F, \hA67F>>,
     <<\hA69C, \hA69F>>, <<\hA6F0, \hA6F1>>, <<\hA700, \hA721>>, <<\hA770, \hA770>>,
     <<\hA788, \hA78A>>, <<\hA7F1, \hA7F4>>, <<\hA7F8, \hA7F9>>, <<\hA802, \hA802>>,
     <<\hA806, \hA806>>, <<\hA80B, \hA80B>>, <<\hA825, \hA826>>, <<\hA82C, \hA82C>>,
     <<\hA8C4, \hA8C5>>, <<\hA8E0, \hA8F1>>, <<\hA8FF, \hA8FF>>, <<\hA926, \hA92D>>,
     <<\hA947, \hA951>>, <<\hA980, \hA982>>, <<\hA9B3, \hA9B3>>, <<\hA9B6, \hA9B9>>,
     <<\hA9BC, \hA9BD>>, <<\hA9CF, \hA9CF>>, <<\hA9E5, \hA9E6>>, <<\hAA29, \hAA2E>>,
     <<\hAA31, \hAA32>>, <<\hAA35, \hAA36>>, <<\hAA43, \hAA43>>, <<\hAA4C, \hAA4C>>,
     <<\hAA70, \hAA70>>, <<\hAA7C, \hAA7C>>, <<\hAAB0, \hAAB0>>, <<\hAAB2, \hAAB4>>,
     <<\hAAB7, \hAAB8>>, <<\hAABE, \hAABF>>, <<\hAAC1, \hAAC1>>, <<\hAADD, \hAADD>>,
     <<\hAAEC, \hAAED>>, <<\hAAF3, \hAAF4>>, <<\hAAF6, \hAAF6>>, <<\hAB5B, \hAB5F>>,
     <<\hAB69, \hAB6B>>, <<\hABE5, \hABE5>>, <<\hABE8, \hABE8>>, <<\hABED, \hABED>>,
     <<\hFB1E, \hFB1E>>, <<\hFBB2, \hFBC2>>, <<\hFE00, \hFE0F>>, <<\hFE13, \hFE13>>,
     <<\hFE20, \hFE2F>>, <<\hFE52, \hFE52>>, <<\hFE55, \hFE55>>, <<\hFEFF, \hFEFF>>,
     <<\hFF07, \hFF07>>, <<\hFF0E, \hFF0E>>, <<\hFF1A, \hFF1A>>, <<\hFF3E, \hFF3E>>,
     <<\hFF40, \hFF40>>, <<\hFF70, \hFF70>>, <<\hFF9E, \hFF9F>>, <<\hFFE3, \hFFE3>>,
     <<\hFFF9, \hFFFB>>, <<\h101FD, \h101FD>>, <<\h102E0, \h102E0>>, <<\h10376, \h1037A>>,
     <<\h10780, \h10785>>, <<\h10787, \h107B0>>, <<\h107B2, \h107BA>>, <<\h10A01, \h10A03>>,
     <<\h10A05, \h10A06>>, <<\h10A0C, \h10A0F>>, <<\h10A38, \h10A3A>>, <<\h10A3F, \h10A3F>>,
     <<\h10AE5, \h10AE6>>, <<\h10D24, \h10D27>>, <<\h10D4E, \h10D4E>>, <<\h10D69, \h10D6D>>,
     <<\h10D6F, \h10D6F>>, <<\h10EAB, \h10EAC>>, <<\h10EC5, \h10EC5>>, <<\h10EFA, \h10EFF>>,
     <<\h10F46, \h10F50>>, <<\h10F82, \h10F85>>, <<\h11001, \h11001>>, <<\h11038, \h11046>>,
     <<\h11070, \h11070>>, <<\h11073, \h11074>>, <<\h1107F, \h11081>>, <<\h110B3, \h110B6>>,
     <<\h110B9, \h110BA>>, <<\h110BD, \h110BD>>, <<\h110C2, \h110C2>>, <<\h110CD, \h110CD>>,
     <<\h11100, \h11102>>, <<\h11127, \h1112B>>, <<\h1112D, \h11134>>, <<\h11173, \h11173>>,
     <<\h11180, \h11181>>, <<\h111B6, \h111BE>>, <<\h111C9, \h111CC>>, <<\h111CF, \h111CF>>,
     <<\h1122F, \h11231>>, <<\h11234, \h11234>>, <<\h11236, \h11237>>, <<\h1123E, \h1123E>>,
     <<\h11241, \h11241>>, <<\h112DF, \h112DF>>, <<\h112E3, \h112EA>>, <<\h11300, \h11301>>,
     <<\h1133B, \h1133C>>, <<\h11340, \h11340>>, <<\h11366, \h1136C>>, <<\h11370, \h11374>>,
     <<\h113BB, \h113C0>>, <<\h113CE, \h113CE>>, <<\h113D0, \h113D0>>, <<\h113D2, \h113D2>>,
     <<\h113E1, \h113E2>>, <<\h11438, \h1143F>>, <<\h11442, \h11444>>, <<\h11446, \h11446>>,
     <<\h1145E, \h1145E>>, <<\h114B3, \h114B8>>, <<\h114BA, \h114BA>>, <<\h114BF, \h114C0>>,
     <<\h114C2, \h114C3>>, <<\h115B2, \h115B5>>, <<\h115BC, \h115BD>>, <<\h115BF, \h115C0>>,
     <<\h115DC, \h115DD>>, <<\h11633, \h1163A>>, <<\h1163D, \h1163D>>, <<\h1163F, \h11640>>,
     <<\h116AB, \h116AB>>, <<\h116AD, \h116AD>>, <<\h116B0, \h116B5>>, <<\h116B7, \h116B7>>,
     <<\h1171D, \h1171D>>, <<\h1171F, \h1171F>>, <<\h11722, \h11725>>, <<\h11727, \h1172B>>,
     <<\h1182F, \h11837>>, <<\h11839, \h1183A>>, <<\h1193B, \h1193C>>, <<\h1193E, \h1193E>>,
     <<\h11943, \h11943>>, <<\h119D4, \h119D7>>, <<\h119DA, \h119DB>>, <<\h119E0, \h119E0>>,
     <<\h11A01, \h11A0A>>, <<\h11A33, \h11A38>>, <<\h11A3B, \h11A3E>>, <<\h11A47, \h11A47>>,
     <<\h11A51, \h11A56>>, <<\h11A59, \h11A5B>>, <<\h11A8A, \h11A96>>, <<\h11A98, \h11A99>>,
     <<\h11B60, \h11B60>>, <<\h11B62, \h11B64>>, <<\h11B66, \h11B66>>, <<\h11C30, \h11C36>>,
     <<\h11C38, \h11C3D>>, <<\h11C3F, \h11C3F>>, <<\h11C92, \h11CA7>>, <<\h11CAA, \h11CB0>>,
     <<\h11CB2, \h11CB3>>, <<\h11CB5, \h11CB6>>, <<\h11D31, \h11D36>>, <<\h11D3A, \h11D3A>>,
     <<\h11D3C, \h11D3D>>, <<\h11D3F, \h11D45>>, <<\h11D47, \h11D47>>, <<\h11D90, \h11D91>>,
     <<\h11D95, \h11D95>>, <<\h11D97, \h11D97>>, <<\h11DD9, \h11DD9>>, <<\h11EF3, \h11EF4>>,
     <<\h11F00, \h11F01>>, <<\h11F36, \h11F3A>>, <<\h11F40, \h11F40>>, <<\h11F42, \h11F42>>,
     <<\h11F5A, \h11F5A>>, <<\h13430, \h13440>>, <<\h13447, \h13455>>, <<\h1611E, \h16129>>,
     <<\h1612D, \h1612F>>, <<\h16AF0, \h16AF4>>, <<\h16B30, \h16B36>>, <<\h16B40, \h16B43>>,
     <<\h16D40, \h16D42>>, <<\h16D6B, \h16D6C>>, <<\h16F4F, \h16F4F>>, <<\h16F8F, \h16F9F>>,
     <<\h16FE0, \h16FE1>>, <<\h16FE3, \h16FE4>>, <<\h16FF2, \h16FF3>>, <<\h1AFF0, \h1AFF3>>,
     <<\h1AFF5, \h1AFFB>>, <<\h1AFFD, \h1AFFE>>, <<\h1BC9D, \h1BC9E>>, <<\h1BCA0, \h1BCA3>>,
     <<\h1CF00, \h1CF2D>>, <<\h1CF30, \h1CF46>>, <<\h1D167, \h1D169>>, <<\h1D173, \h1D182>>,
     <<\h1D185, \h1D18B>>, <<\h1D1AA, \h1D1AD>>, <<\h1D242, \h1D244>>, <<\h1DA00, \h1DA36>>,
     <<\h1DA3B, \h1DA6C>>, <<\h1DA75, \h1DA75>>, <<\h1DA84, \h1DA84>>, <<\h1DA9B, \h1DA9F>>,
     <<\h1DAA1, \h1DAAF>>, <<\h1E000, \h1E006>>, <<\h1E008, \h1E018>>, <<\h1E01B, \h1E021>>,
     <<\h1E023, \h1E024>>, <<\h1E026, \h1E02A>>, <<\h1E030, \h1E06D>>, <<\h1E08F, \h1E08F>>,
     <<\h1E130, \h1E13D>>, <<\h1E2AE, \h1E2AE>>, <<\h1E2EC, \h1E2EF>>, <<\h1E4EB, \h1E4EF>>,
     <<\h1E5EE, \h1E5EF>>, <<\h1E6E3, \h1E6E3>>, <<\h1E6E6, \h1E6E6>>, <<\h1E6EE, \h1E6EF>>,
     <<\h1E6F5, \h1E6F5>>, <<\h1E6FF, \h1E6FF>>, <<\h1E8D0, \h1E8D6>>, <<\h1E944, \h1E94B>>,
     <<\h1F3FB, \h1F3FF>>, <<\hE0001, \hE0001>>, <<\hE0020, \hE007F>>, <<\hE0100, \hE01EF>>
    }}
case_ignorable_then_cased(s) ==
    \E j \in DOMAIN s :
        /\ s[j] \in Cased
        /\ s[j] \notin Case_Ignorable
        /\ \A k \in 1..(j - 1) : s[k] \in Case_Ignorable
Reverse(s) == [i \in DOMAIN s |-> s[Len(s) + 1 - i]]
map_uppercase_sigma(s, i) ==
    IF /\ case_ignorable_then_cased(Reverse(SubSeq(s, 1, i - 1)))
       /\ ~case_ignorable_then_cased(SubSeq(s, i + 1, Len(s)))
    THEN <<FinalSigma>>
    ELSE <<SmallSigma>>

\* u8::to_ascii_lowercase
to_ascii_lowercase(c) == IF \h41 <= c /\ c <= \h5A THEN c + 32 ELSE c
\* The lower case of the character at position i of s
LowerChar(s, i) ==
    IF s[i] < 128 THEN <<to_ascii_lowercase(s[i])>>
    ELSE IF s[i] = Sigma THEN map_uppercase_sigma(s, i)
    ELSE IF s[i] \in Upper THEN LowerOf[s[i]]
    ELSE <<s[i]>>

RECURSIVE LowerFrom(_, _)
LowerFrom(s, i) ==
    IF i > Len(s) THEN <<>> ELSE LowerChar(s, i) \o LowerFrom(s, i + 1)

\* str::to_lowercase
to_lowercase(s) == The({LowerFrom(v, 1) : v \in Only(s)})

None == {}
Some(x) == {x}
\* Option::unwrap_or_default for strings and string lists
unwrap_or_default(o) == IF o = None THEN <<>> ELSE CHOOSE x \in o : TRUE

\* helper::find: position of the first element equal to item, ignoring case
find(item, list) ==
    The({IF hits = {} THEN None
         ELSE Some((CHOOSE i \in hits : \A j \in hits : i <= j) - 1)
         : hits \in Only(The({{i \in DOMAIN list : to_lowercase(list[i]) = low}
                              : low \in Only(to_lowercase(item))}))})

\* ------------------------------------------------------------------ paths
Dot == \h2E
Separator == \h2F
\* The pieces that are not names: Component::RootDir, CurDir, ParentDir
RootDir == <<Separator>>
CurDir == <<Dot>>
ParentDir == <<Dot, Dot>>

Parent(path) == SubSeq(path, 1, Len(path) - 1)
IsPrefix(a, p) == Len(a) <= Len(p) /\ SubSeq(p, 1, Len(a)) = a
IsProperPrefix(a, p) == Len(a) < Len(p) /\ SubSeq(p, 1, Len(a)) = a

\* Path::is_relative
is_relative(path) == path = <<>> \/ path[1] # RootDir
\* The path ends with a separator.
ends_with_separator(path) ==
    path # <<>> /\ (path[Len(path)] = <<>> \/ path = <<RootDir>>)

\* Path::components: the pieces of the path without the empty ones and
\* without the '.' that is not the first piece
RECURSIVE ComponentsFrom(_, _)
ComponentsFrom(path, i) ==
    IF i > Len(path) THEN <<>>
    ELSE (IF path[i] = <<>> \/ (path[i] = CurDir /\ i > 1) THEN <<>> ELSE <<path[i]>>)
         \o ComponentsFrom(path, i + 1)
components(path) == ComponentsFrom(path, 1)

\* Path::file_name: the last component when it is a name (the components are
\* read from the end: empty pieces and a '.' that is not the first piece are
\* passed over)
RECURSIVE file_name(_)
file_name(path) ==
    IF path = <<>> THEN None
    ELSE IF path[Len(path)] = <<>> \/ (path[Len(path)] = CurDir /\ Len(path) > 1)
    THEN file_name(Parent(path))
    ELSE IF path[Len(path)] \in {RootDir, CurDir, ParentDir} THEN None
    ELSE Some(path[Len(path)])

\* Index of the last '.' of a name, 0 when it has none
LastDot(name) ==
    LET dots == {i \in DOMAIN name : name[i] = Dot}
    IN  IF dots = {} THEN 0 ELSE CHOOSE i \in dots : \A j \in dots : j <= i

\* Path::extension: the text after the last '.' of the file name; None when
\* the name has no '.', when its only '.' is its first character, or when
\* there is no file name.
extension(path) ==
    The({IF fname = None THEN None
         ELSE The({The({IF d = 0 THEN None
                        ELSE IF d = 1 THEN None
                        ELSE Some(SubSeq(name, d + 1, Len(name)))
                        : d \in Only(LastDot(name))})
                   : name \in Only(The(fname))})
         : fname \in Only(file_name(path))})

\* PathBuf::push of a name (Path::join): a separator is put before it unless
\* the path is empty or ends with one
join(path, name) ==
    IF path # <<>> /\ path[Len(path)] = <<>> THEN Append(Parent(path), name)
    ELSE Append(path, name)
\* PathBuf::extend
RECURSIVE extend(_, _)
extend(path, names) ==
    IF names = <<>> THEN path ELSE extend(join(path, Head(names)), Tail(names))

\* The working directory of the process
Cwd == <<RootDir>>
\* path::absolute: an error (None) for the empty path; otherwise the working
\* directory, or the root of an absolute path (two separators when it starts
\* with exactly two), then the components of the path other than '.', then
\* a separator when the path ends with one
absolute(path) ==
    IF path = <<>> THEN None
    ELSE The({IF ends_with_separator(path) /\ ~ends_with_separator(made)
              THEN Some(Append(made, <<>>))
              ELSE Some(made)
              : made \in Only(extend(
                    IF is_relative(path) THEN Cwd
                    ELSE IF /\ Len(path) >= 2
                            /\ path[2] = <<>>
                            /\ ~(Len(path) >= 4 /\ path[3] = <<>>)
                    THEN <<RootDir, <<>>, <<>>>>
                    ELSE <<RootDir>>,
                    SelectSeq(components(path),
                              LAMBDA c : c \notin {RootDir, CurDir})))})

\* ------------------------------------------------------------------ filesystem
\* An entry is a regular file, a directory or a symbolic link with its
\* target.  The mode of a directory decides whether it can be listed and
\* searched ("---" cannot) and whether its entries can be unlinked (only
\* "rwx" can); a file of mode "---" cannot be read.
Entry(t, m) == [type |-> t, mode |-> m, target |-> <<>>]
Link(target) == [type |-> "link", mode |-> "rwx", target |-> target]

Drop(f, gone) == [p \in DOMAIN f \ gone |-> f[p]]

\* Pathname resolution from the directory cur: the node the pieces lead to,
\* None when one of them is missing, when what comes before a piece is not a
\* directory, or not one that can be searched for a name, or more than
\* budget links are met.  The link in the last piece is followed when follow
\* is set.
RECURSIVE Resolve(_, _, _, _, _)
Resolve(f, cur, comps, follow, budget) ==
    IF comps = <<>> THEN Some(cur)
    ELSE IF ~(cur \in DOMAIN f /\ f[cur].type = "dir") THEN None
    ELSE IF Head(comps) = <<>> THEN Resolve(f, cur, Tail(comps), follow, budget)
    ELSE IF f[cur].mode = "---" THEN None
    ELSE IF Head(comps) = CurDir THEN Resolve(f, cur, Tail(comps), follow, budget)
    ELSE IF Head(comps) = ParentDir
    THEN Resolve(f, Parent(cur), Tail(comps), follow, budget)
    ELSE IF Append(cur, Head(comps)) \notin DOMAIN f THEN None
    ELSE IF /\ f[Append(cur, Head(comps))].type = "link"
            /\ (follow \/ Tail(comps) # <<>>)
    THEN IF budget = 0 \/ f[Append(cur, Head(comps))].target = <<>> THEN None
         ELSE LET target == f[Append(cur, Head(comps))].target
              IN  IF is_relative(target)
                  THEN Resolve(f, cur, target \o Tail(comps), follow, budget - 1)
                  ELSE Resolve(f, <<>>, Tail(target) \o Tail(comps), follow,
                               budget - 1)
    ELSE Resolve(f, Append(cur, Head(comps)), Tail(comps), follow, budget)

\* The node of a path, links followed (stat) or the last one not (lstat);
\* the kernel follows at most 40 links in one resolution
Lookup(f, path, follow) ==
    IF path = <<>> THEN None
    ELSE IF path[1] = RootDir THEN Resolve(f, <<>>, Tail(path), follow, 40)
    ELSE Resolve(f, <<>>, path, follow, 40)

\* Path::exists, Path::is_dir, Path::is_file: the metadata of what the path
\* leads to, links followed
exists(f, path) == Lookup(f, path, TRUE) # None
is_dir(f, path) == \E n \in Lookup(f, path, TRUE) : f[n].type = "dir"
is_file(f, path) == \E n \in Lookup(f, path, TRUE) : f[n].type = "file"

Writable(f, dir) == dir \in DOMAIN f /\ f[dir].mode = "rwx"

\* The direct entries of a directory node
Entries(f, dir) == {p \in DOMAIN f : Len(p) = Len(dir) + 1 /\ IsPrefix(dir, p)}

\* fs::read_dir: the directory opened and the names in it, or an error
read_dir(f, dir) ==
    The({IF \E n \in at : f[n].type = "dir" /\ f[n].mode # "---"
         THEN [ok |-> TRUE, node |-> The(at),
               names |-> {p[Len(p)] : p \in Entries(f, The(at))}]
         ELSE [ok |-> FALSE, node |-> <<>>, names |-> {}]
         : at \in Only(Lookup(f, dir, TRUE))})

\* fs::read_to_string succeeds on a regular file that can be read
read_to_string_ok(f, path) ==
    \E n \in Lookup(f, path, TRUE) : f[n].type = "file" /\ f[n].mode # "---"

Outcome(f, ok) == [fs |-> f, ok |-> ok]

\* fs::remove_file: unlinks what the path names (a link itself, not its
\* target) when it is not a directory and its directory can be written
remove_file(f, path) ==
    The({IF \E n \in at : /\ f[n].type # "dir"
                          /\ Writable(f, Parent(n))
         THEN {Outcome(Drop(f, at), TRUE)}
         ELSE {Outcome(f, FALSE)}
         : at \in Only(Lookup(f, path, FALSE))})

\* The path without the separators it ends with
RECURSIVE trim_end(_)
trim_end(path) ==
    IF path # <<>> /\ path[Len(path)] = <<>> THEN trim_end(Parent(path)) ELSE path
\* The unlinkat(AT_REMOVEDIR) that ends fs::remove_dir_all, on the path the
\* caller gave: the directory that holds the last name is looked up again,
\* and a path that is no longer found is not an error (ignore_notfound).  The
\* kernel refuses the root directory, "." and ".." as the last name, a name
\* that is not a directory (a link to one followed by a separator) and a
\* holding directory that cannot be searched or written.
unlink_dir(f, path) ==
    The({IF p = <<>> \/ p = <<RootDir>> THEN Outcome(f, FALSE)
         ELSE The({IF dir = None THEN Outcome(f, TRUE)
                   ELSE IF f[The(dir)].type # "dir" THEN Outcome(f, FALSE)
                   ELSE IF p[Len(p)] \in {CurDir, ParentDir} THEN Outcome(f, FALSE)
                   ELSE IF f[The(dir)].mode = "---" THEN Outcome(f, FALSE)
                   ELSE IF Append(The(dir), p[Len(p)]) \notin DOMAIN f
                        THEN Outcome(f, TRUE)
                   ELSE IF /\ f[Append(The(dir), p[Len(p)])].type = "dir"
                           /\ Entries(f, Append(The(dir), p[Len(p)])) = {}
                           /\ Writable(f, The(dir))
                        THEN Outcome(Drop(f, {Append(The(dir), p[Len(p)])}), TRUE)
                   ELSE Outcome(f, FALSE)
                   : dir \in Only(IF Len(p) = 1 THEN Some(<<>>)
                                  ELSE Lookup(f, Parent(p), TRUE))})
         : p \in Only(trim_end(path))})

\* ------------------------------------------------------------------ matcher
File == "File"
Folder == "Folder"

\* A mutation of pattern_check: the entry's type is not checked.
pattern_check_any_type(f, path, patterns, kind) ==
    IF kind = Folder
    THEN find(unwrap_or_default(file_name(path)), patterns)
    ELSE find(unwrap_or_default(extension(path)), patterns)

\* helper::pattern_check
pattern_check(f, path, patterns, kind) ==
    IF kind = Folder /\ is_dir(f, path)
    THEN find(unwrap_or_default(file_name(path)), patterns)
    ELSE IF kind = File /\ is_file(f, path)
    THEN find(unwrap_or_default(extension(path)), patterns)
    ELSE None

\* A mutation of Excluded: the exclusion list is ignored.
Excluded_never(path, exclude) == FALSE

\* The test of helper::childern on one listed entry
Excluded(path, exclude) ==
    find(unwrap_or_default(file_name(path)), exclude) # None

\* ------------------------------------------------------------------ inputs
\* Names of the entries of the modelled trees
nBuild == Str(<<"b","u","i","l","d">>)
nDTmp == Str(<<"d",".","t","m","p">>)
nATmp == Str(<<"a",".","t","m","p">>)
nReadme == Str(<<"R","E","A","D","M","E">>)
nTmp == Str(<<"t","m","p">>)
nOut == Str(<<"o","u","t">>)
nRulesJson == Str(<<"r","u","l","e","s",".","J","S","O","N">>)
nRulesTxt == Str(<<"r","u","l","e","s",".","t","x","t">>)
nLockedJson == Str(<<"l","o","c","k","e","d",".","j","s","o","n">>)
nGoneJson == Str(<<"g","o","n","e",".","j","s","o","n">>)
nGone == Str(<<"g","o","n","e">>)
sJson == Str(<<"j","s","o","n">>)

DirNames == {nBuild, nDTmp}
FileNames == {nATmp}
LinkNames == {nTmp}
Names == DirNames \cup FileNames \cup LinkNames

\* What a symbolic link of a tree may point to, from its own directory: the
\* directory beside the destination (a missing path from deeper down), a
\* file beside the link, a directory beside the link
LinkTargets == {<<ParentDir, nOut>>, <<nATmp>>, <<nDTmp>>}

\* Pattern and exclusion strings (in another case than the names)
sBuild == Str(<<"B","u","i","l","d">>)
sTmp == Str(<<"T","M","P">>)
sEmpty == <<>>
sATmp == Str(<<"A",".","T","M","P">>)

PatternLists == {<<sBuild, sTmp>>, <<sEmpty>>, <<>>}
ExcludeOptions == {None, Some(<<sATmp, nDTmp>>)}

\* The destination of the rules, a file and a directory beside it, and the
\* other destinations a configuration document may name: a directory below
\* the destination written with a separator at its end, a regular file, a
\* missing path
DestPath == <<nBuild>>
OutsideFile == <<nATmp>>
OutsideDir == <<nOut>>
OtherDests == {<<nBuild, nBuild, <<>>>>, OutsideFile, <<nGone>>}

\* Relative paths of the entries a tree may hold below the destination
RECURSIVE PathsOfLen(_)
PathsOfLen(k) ==
    IF k = 1 THEN {<<n>> : n \in Names}
    ELSE {Append(p, n) : p \in {q \in PathsOfLen(k - 1) : q[Len(q)] \in DirNames},
                         n \in Names}
Universe == UNION {PathsOfLen(k) : k \in 1..MaxDepth}

\* Prefix-closed sets of at most n relative paths
RECURSIVE TreesUpTo(_)
TreesUpTo(n) ==
    IF n = 0 THEN {{}}
    ELSE LET prev == TreesUpTo(n - 1)
         IN  prev \cup UNION {
                 {t \cup {p} : p \in {q \in Universe : Len(q) = 1 \/ Parent(q) \in t}}
                 : t \in prev}
Trees == TreesUpTo(MaxEntries)
LiveTrees == TreesUpTo(MaxLiveEntries)

\* The targets to choose from for the links of a tree
TargetsOf(t) ==
    IF \E p \in t : p[Len(p)] \in LinkNames THEN LinkTargets ELSE {<<>>}

\* At most one directory of the tree (the destination included) has lost
\* permissions: no fault, or [dir, mode].
Faults(t) ==
    {[dir |-> <<>>, mode |-> "rwx"]} \cup
    {[dir |-> d, mode |-> m] :
        d \in {<<>>} \cup {p \in t : p[Len(p)] \in DirNames},
        m \in {"r-x", "---"}}

\* The filesystem holding tree t below the destination, the links of the
\* tree pointing to target
MkFs(t, fault, target) ==
    LET files == {OutsideFile, Append(OutsideDir, nATmp), <<nRulesJson>>, <<nRulesTxt>>}
        fixed == {<<>>, DestPath, OutsideDir, <<nLockedJson>>} \cup files
        dom   == fixed \cup {DestPath \o p : p \in t}
    IN  [p \in dom |->
            IF p \in files THEN Entry("file", "rwx")
            ELSE IF p = <<nLockedJson>> THEN Entry("file", "---")
            ELSE IF p \in {<<>>, OutsideDir} THEN Entry("dir", "rwx")
            ELSE IF p[Len(p)] \in FileNames /\ Len(p) > 1 THEN Entry("file", "rwx")
            ELSE IF p[Len(p)] \in LinkNames /\ Len(p) > 1 THEN Link(target)
            ELSE IF p = DestPath \o fault.dir THEN Entry("dir", fault.mode)
            ELSE Entry("dir", "rwx")]

\* Config::new
Config(destination, kind, patterns, exclude) ==
    [destination |-> destination, kind |-> kind,
     patterns |-> patterns, exclude |-> exclude]

RulesAt(dest) ==
    {Config(dest, k, ps, ex) :
        k \in {File, Folder}, ps \in PatternLists, ex \in ExcludeOptions}
SmallRulesAt(dest) ==
    {Config(dest, k, <<sBuild, sTmp>>, None) : k \in {File, Folder}}

Repeat(r, n) == [i \in 1..n |-> r]

\* The rule lists a JSON document may hold: a rule that can match, two
\* times or more, or a rule and the same rule for another destination
Documents ==
    {Repeat(r, n) : r \in {q \in RulesAt(DestPath) : q.patterns = <<sBuild, sTmp>>},
                    n \in 2..MaxRules}
    \cup UNION {{<<Config(DestPath, r.kind, r.patterns, r.exclude), r>>
                   : r \in SmallRulesAt(o)} : o \in OtherDests}

Json(valid, rules) == [valid |-> valid, rules |-> rules]
Garbage == Json(FALSE, <<>>)

\* Engine: the parsed command line
Engine(config, destination, kind, patterns, exclude, dry) ==
    [config |-> config, destination |-> destination, kind |-> kind,
     patterns |-> patterns, exclude |-> exclude, dryrun |-> dry]

DiscreteEngines(dry) ==
    {Engine(None, Some(r.destination), Some(r.kind), Some(r.patterns), r.exclude, dry)
        : r \in RulesAt(DestPath)}
    \cup {Engine(None, d, Some(Folder), Some(<<sBuild, sTmp>>), None, dry)
        : d \in {None, Some(OutsideFile), Some(<<nGone>>)}}
    \cup {Engine(None, Some(DestPath), None, Some(<<sBuild, sTmp>>), None, dry),
          Engine(None, Some(DestPath), Some(Folder), None, None, dry)}

ConfigEngine(path, dry) == Engine(Some(path), None, None, None, None, dry)

\* The inputs of one invocation: the command line and the content of the
\* configuration file it names
Inputs ==
    UNION {
        {[engine |-> e, json |-> Garbage] : e \in DiscreteEngines(dry)}
        \cup {[engine |-> ConfigEngine(<<nRulesJson>>, dry), json |-> Json(TRUE, d)]
                : d \in Documents}
        \cup {[engine |-> ConfigEngine(p, dry), json |-> Garbage]
                : p \in {<<nRulesJson>>, <<nRulesJson, <<>>>>, <<nRulesTxt>>,
                         <<nGoneJson>>, <<>>}}
        \cup {[engine |-> ConfigEngine(<<nLockedJson>>, dry),
               json |-> Json(TRUE, <<r>>)] : r \in SmallRulesAt(DestPath)}
        : dry \in BOOLEAN}

\* ------------------------------------------------------------------ state
VARIABLES
    fs,        \* the filesystem
    engine,    \* the command line handed to validate
    json,      \* the content of the configuration file
    configs,   \* Manager.configs
    dryrun,    \* Manager.dryrun
    pc,        \* "new", "validated", "failed", "executing", "done"
    vres,      \* the result of validate: "none", "Ok", "Usage", "Io", "Parse"
    eres,      \* the result of execute: "none", "Ok"
    idx,       \* execute: the position of the rule being walked
    stack,     \* the calls of helper::remove in progress, the innermost last
    out,       \* the lines printed so far and the calls made, per rule
    walks,     \* the calls of helper::remove made by execute, and their returns
    fs0,       \* the filesystem when the program started
    fsStart    \* the filesystem when the current rule's walk started

vars == <<fs, engine, json, configs, dryrun, pc, vres, eres, idx, stack, out,
          walks, fs0, fsStart>>

\* Manager::new, on a filesystem holding one of trees and a command line
\* among inputs
InitWith(trees, inputs) ==
    \E t \in trees : \E fault \in Faults(t) : \E target \in TargetsOf(t) :
      \E in \in inputs :
        /\ fs = MkFs(t, fault, target)
        /\ engine = in.engine
        /\ json = in.json
        /\ configs = <<>>
        /\ dryrun = FALSE
        /\ pc = "new"
        /\ vres = "none"
        /\ eres = "none"
        /\ idx = 0
        /\ stack = <<>>
        /\ out = {}
        /\ walks = <<>>
        /\ fs0 = MkFs(t, fault, target)
        /\ fsStart = MkFs(t, fault, target)

\* Manager::new, on any filesystem and any command line
Init == InitWith(Trees, Inputs)

\* The result of validate and the rules it leaves in the manager; "Io" is an
\* io::Error and "Parse" a serde_json::Error, both converted by '?'
Result(res, cfgs) == [res |-> res, configs |-> cfgs]

\* Manager::parse: the rules of a readable, well-formed document
parse(f, path, doc, cfgs) ==
    IF ~read_to_string_ok(f, path) THEN Result("Io", cfgs)
    ELSE IF ~doc.valid THEN Result("Parse", cfgs)
    ELSE Result("Ok", doc.rules)

\* Manager::format and Manager::add: one more rule
format(cfgs, destination, kind, patterns, exclude) ==
    Result("Ok", Append(cfgs, Config(destination, kind, patterns, exclude)))

\* Manager::validate, the branch of a configuration file
validate_config(f, e, doc, cfgs) ==
    The({IF made = None THEN Result("Io", cfgs)
         ELSE The({IF ~exists(f, path) THEN Result("Usage", cfgs)
                   ELSE IF to_lowercase(unwrap_or_default(extension(path))) # sJson
                   THEN Result("Usage", cfgs)
                   ELSE parse(f, path, doc, cfgs)
                   : path \in Only(The(made))})
         : made \in Only(IF is_relative(The(e.config))
                         THEN absolute(The(e.config))
                         ELSE e.config)})

\* Manager::validate, the branch of the discrete inputs
validate_discrete(f, e, cfgs) ==
    IF e.destination = None THEN Result("Usage", cfgs)
    ELSE IF e.kind = None THEN Result("Usage", cfgs)
    ELSE IF e.patterns = None THEN Result("Usage", cfgs)
    ELSE The({IF ~exists(f, destination) THEN Result("Usage", cfgs)
              ELSE IF ~is_dir(f, destination) THEN Result("Usage", cfgs)
              ELSE format(cfgs, destination, The(e.kind),
                          unwrap_or_default(e.patterns), e.exclude)
              : destination \in Only(The(e.destination))})

\* Manager::validate
Validate ==
    /\ pc = "new"
    /\ dryrun' = engine.dryrun
    /\ \E r \in Only(IF engine.config # None
                     THEN validate_config(fs, engine, json, configs)
                     ELSE validate_discrete(fs, engine, configs)) :
           /\ vres' = r.res
           /\ configs' = r.configs
           /\ pc' = IF r.res = "Ok" THEN "validated" ELSE "failed"
    /\ UNCHANGED <<fs, engine, json, eres, idx, stack, out, walks, fs0, fsStart>>

\* A call of helper::remove: its destination, the point it has reached
\* ("exists", "read_dir", "entries", "loop", "remove_item", "remove_file",
\* "remove_dir_all", "unlink", "openat", "readdir", "is_dir"), the directory
\* node childern has opened and the names its iterator still holds, the
\* children not yet done, the current one first, and the directories that
\* fs::remove_dir_all has open on the current child, the innermost last
Frame(dir, at, node, pending, children) ==
    [dir |-> dir, at |-> at, node |-> node, pending |-> pending,
     children |-> children, open |-> <<>>]
Call(dir) == Frame(dir, "exists", <<>>, {}, <<>>)
Top == stack[Len(stack)]
Rule == configs[idx]
Exclude == unwrap_or_default(Rule.exclude)
Event(ev, path) == [rule |-> idx, ev |-> ev, path |-> path]
At(point) == stack # <<>> /\ Top.at = point
Goto(point) == [stack EXCEPT ![Len(stack)].at = point]

\* Manager::execute is entered once validate has returned Ok
ExecuteCall ==
    /\ pc = "validated"
    /\ pc' = "executing"
    /\ idx' = 1
    /\ UNCHANGED <<fs, engine, json, configs, dryrun, vres, eres, stack, out,
                   walks, fs0, fsStart>>

\* Manager::execute, one turn of the loop: helper::remove is called on the
\* destination of the next rule
ExecuteRule ==
    /\ pc = "executing"
    /\ stack = <<>>
    /\ idx <= Len(configs)
    /\ stack' = <<Call(Rule.destination)>>
    /\ walks' = Append(walks, <<"start", idx, dryrun>>)
    /\ fsStart' = fs
    /\ UNCHANGED <<fs, engine, json, configs, dryrun, pc, vres, eres, idx, out, fs0>>

\* A mutation of ExecuteReturn: a reported failure ends the loop.
ExecuteReturn_on_error ==
    /\ pc = "executing"
    /\ stack = <<>>
    /\ \/ idx > Len(configs)
       \/ \E e \in out : e.ev \in {"ErrorList", "ErrorRemove"}
    /\ pc' = "done"
    /\ eres' = "Ok"
    /\ UNCHANGED <<fs, engine, json, configs, dryrun, vres, idx, stack, out,
                   walks, fs0, fsStart>>

\* Manager::execute, after the loop
ExecuteReturn ==
    /\ pc = "executing"
    /\ stack = <<>>
    /\ idx > Len(configs)
    /\ pc' = "done"
    /\ eres' = "Ok"
    /\ UNCHANGED <<fs, engine, json, configs, dryrun, vres, idx, stack, out,
                   walks, fs0, fsStart>>

\* The return of the innermost call of helper::remove; the return of the
\* outermost one ends the turn of execute's loop
Return ==
    IF Len(stack) = 1
    THEN /\ stack' = <<>>
         /\ walks' = Append(walks, <<"end", idx, dryrun>>)
         /\ idx' = idx + 1
    ELSE /\ stack' = SubSeq(stack, 1, Len(stack) - 1)
         /\ UNCHANGED <<walks, idx>>

\* A mutation of Advanced: the loop steps over the child after the current one.
Advanced_skip ==
    [Top EXCEPT !.at = "loop",
                !.children = IF Len(Top.children) > 1
                             THEN Tail(Tail(Top.children)) ELSE <<>>,
                !.open = <<>>]

\* The calling frame with its current child done
Advanced ==
    [Top EXCEPT !.at = "loop", !.children = Tail(Top.children), !.open = <<>>]

\* helper::remove, its entry: a destination that does not exist returns at
\* once
RemoveEnter ==
    /\ At("exists")
    /\ IF exists(fs, Top.dir)
       THEN /\ stack' = Goto("read_dir")
            /\ UNCHANGED <<walks, idx>>
       ELSE Return
    /\ UNCHANGED <<fs, engine, json, configs, dryrun, pc, vres, eres, out, fs0,
                   fsStart>>

\* helper::childern, fs::read_dir: the directory is opened, or the error is
\* printed and there are no children
Childern ==
    /\ At("read_dir")
    /\ \E rd \in Only(read_dir(fs, Top.dir)) :
          IF rd.ok
          THEN /\ stack' = [stack EXCEPT ![Len(stack)] =
                               Frame(Top.dir, "entries", rd.node, rd.names, <<>>)]
               /\ UNCHANGED out
          ELSE /\ stack' = Goto("loop")
               /\ out' = out \cup {Event("ErrorList", Top.dir)}
    /\ UNCHANGED <<fs, engine, json, configs, dryrun, pc, vres, eres, idx, walks,
                   fs0, fsStart>>

\* helper::childern, one turn of the loop over the entries, in whatever order
\* the directory gives them: an excluded entry is reported, another one kept
ChildernEntry ==
    /\ At("entries")
    /\ \E name \in Top.pending :
         \E path \in Only(join(Top.dir, name)) :
           IF Excluded(path, Exclude)
           THEN /\ out' = out \cup {Event("Exclude", path)}
                /\ stack' = [stack EXCEPT ![Len(stack)].pending = @ \ {name}]
           ELSE /\ UNCHANGED out
                /\ stack' = [stack EXCEPT ![Len(stack)].pending = @ \ {name},
                                          ![Len(stack)].children = Append(@, path)]
    /\ UNCHANGED <<fs, engine, json, configs, dryrun, pc, vres, eres, idx, walks,
                   fs0, fsStart>>

\* helper::childern returns when the entries are exhausted
ChildernReturn ==
    /\ At("entries")
    /\ Top.pending = {}
    /\ stack' = Goto("loop")
    /\ UNCHANGED <<fs, engine, json, configs, dryrun, pc, vres, eres, idx, out,
                   walks, fs0, fsStart>>

Visiting == At("loop") /\ Top.children # <<>>
Child == Head(Top.children)
Matched == pattern_check(fs, Child, Rule.patterns, Rule.kind) # None

\* A mutation of RemoveMatched: the dry-run flag is not consulted.
RemoveMatched_always ==
    /\ Visiting
    /\ Matched
    /\ out' = out \cup {Event("Removing", Child)}
    /\ stack' = Goto("remove_item")
    /\ UNCHANGED <<fs, engine, json, configs, dryrun, pc, vres, eres, idx, walks,
                   fs0, fsStart>>

\* helper::remove on a matching child, not a dry run: the match is reported
\* and remove_item called
RemoveMatched ==
    /\ Visiting
    /\ Matched
    /\ ~dryrun
    /\ out' = out \cup {Event("Removing", Child)}
    /\ stack' = Goto("remove_item")
    /\ UNCHANGED <<fs, engine, json, configs, dryrun, pc, vres, eres, idx, walks,
                   fs0, fsStart>>

\* helper::remove on a matching child in a dry run: only the report
ReportMatched ==
    /\ Visiting
    /\ Matched
    /\ dryrun
    /\ out' = out \cup {Event("Removing", Child)}
    /\ stack' = [stack EXCEPT ![Len(stack)] = Advanced]
    /\ UNCHANGED <<fs, engine, json, configs, dryrun, pc, vres, eres, idx, walks,
                   fs0, fsStart>>

\* helper::remove on a child that does not match
NoMatch ==
    /\ Visiting
    /\ ~Matched
    /\ stack' = Goto("is_dir")
    /\ UNCHANGED <<fs, engine, json, configs, dryrun, pc, vres, eres, idx, out,
                   walks, fs0, fsStart>>

\* helper::remove_item: the test that chooses the removal
RemoveItem ==
    /\ At("remove_item")
    /\ stack' = Goto(IF is_file(fs, Child) THEN "remove_file" ELSE "remove_dir_all")
    /\ UNCHANGED <<fs, engine, json, configs, dryrun, pc, vres, eres, idx, out,
                   walks, fs0, fsStart>>

\* The end of a removal: its result is printed and the loop moves on
Removed(r) ==
    /\ fs' = r.fs
    /\ out' = out \cup {Event(IF r.ok THEN "Removed" ELSE "ErrorRemove", Child)}
    /\ stack' = [stack EXCEPT ![Len(stack)] = Advanced]
    /\ UNCHANGED <<engine, json, configs, dryrun, pc, vres, eres, idx, walks,
                   fs0, fsStart>>

\* helper::remove_item on a file
RemoveFile ==
    /\ At("remove_file")
    /\ \E r \in remove_file(fs, Child) : Removed(r)

\* A directory fs::remove_dir_all has opened: its node and the entries its
\* iterator has still to give
Opened(f, node) ==
    [node |-> node, pending |-> {p[Len(p)] : p \in Entries(f, node)}]
\* The innermost directory the removal has open
Inner == Top.open[Len(Top.open)]
\* The removal goes on: the open directories become dirs.
Emptying(f, dirs) ==
    /\ fs' = f
    /\ stack' = [stack EXCEPT ![Len(stack)].at = "readdir",
                              ![Len(stack)].open = dirs]
    /\ UNCHANGED <<engine, json, configs, dryrun, pc, vres, eres, idx, out, walks,
                   fs0, fsStart>>
\* The open directories with name taken from the innermost iterator
Taken(name) ==
    [Top.open EXCEPT ![Len(Top.open)].pending = @ \ {name}]

\* helper::remove_item on anything else, fs::remove_dir_all: the lstat of the
\* path; a path that is not found is an error
RemoveDirAll ==
    /\ At("remove_dir_all")
    /\ \E at \in Only(Lookup(fs, Child, FALSE)) :
         IF at = None THEN Removed(Outcome(fs, FALSE))
         ELSE /\ stack' = Goto(IF fs[The(at)].type = "link" THEN "unlink" ELSE "openat")
              /\ UNCHANGED <<fs, engine, json, configs, dryrun, pc, vres, eres, idx,
                             out, walks, fs0, fsStart>>

\* fs::remove_dir_all on a symbolic link: the link is unlinked, not followed
RemoveDirAllLink ==
    /\ At("unlink")
    /\ \E r \in remove_file(fs, Child) : Removed(r)

\* fs::remove_dir_all, remove_dir_all_recursive on the path: the directory
\* is opened (no link followed at the last name); anything else is an error
RemoveDirAllOpen ==
    /\ At("openat")
    /\ \E at \in Only(Lookup(fs, Child, FALSE)) :
         IF \E n \in at : fs[n].type = "dir" /\ fs[n].mode # "---"
         THEN Emptying(fs, <<Opened(fs, The(at))>>)
         ELSE Removed(Outcome(fs, FALSE))

\* fs::remove_dir_all, one turn of the loop over the entries of the innermost
\* open directory: a directory is opened in its turn, anything else is
\* unlinked; an entry that is no longer found is passed over, another error
\* ends the removal
RemoveDirAllEntry ==
    /\ At("readdir")
    /\ \E name \in Inner.pending :
         \E c \in Only(Append(Inner.node, name)) :
           IF c \notin DOMAIN fs THEN Emptying(fs, Taken(name))
           ELSE IF fs[c].type = "dir"
           THEN IF fs[c].mode = "---" THEN Removed(Outcome(fs, FALSE))
                ELSE Emptying(fs, Append(Taken(name), Opened(fs, c)))
           ELSE IF Writable(fs, Inner.node)
           THEN Emptying(Drop(fs, {c}), Taken(name))
           ELSE Removed(Outcome(fs, FALSE))

\* fs::remove_dir_all, after the loop: the directory is unlinked, through the
\* directory above it when that one is open, by the path given otherwise; a
\* directory that is no longer found is no error
RemoveDirAllUnlink ==
    /\ At("readdir")
    /\ Inner.pending = {}
    /\ IF Len(Top.open) = 1 THEN Removed(unlink_dir(fs, Child))
       ELSE \E c \in Only(Inner.node) :
              \E rest \in Only(SubSeq(Top.open, 1, Len(Top.open) - 1)) :
                IF c \notin DOMAIN fs THEN Emptying(fs, rest)
                ELSE IF Entries(fs, c) = {} /\ Writable(fs, Parent(c))
                THEN Emptying(Drop(fs, {c}), rest)
                ELSE Removed(Outcome(fs, FALSE))

\* A mutation of Recurse: a directory that does not match is passed over.
Recurse_none ==
    /\ At("is_dir")
    /\ is_dir(fs, Child)
    /\ stack' = [stack EXCEPT ![Len(stack)] = Advanced]
    /\ UNCHANGED <<fs, engine, json, configs, dryrun, pc, vres, eres, idx, out,
                   walks, fs0, fsStart>>

\* A mutation of Recurse: the caller's loop does not move past the child.
Recurse_no_advance ==
    /\ At("is_dir")
    /\ is_dir(fs, Child)
    /\ stack' = Append(stack, Call(Child))
    /\ out' = out \cup {Event("Call", Child)}
    /\ UNCHANGED <<fs, engine, json, configs, dryrun, pc, vres, eres, idx, walks,
                   fs0, fsStart>>

\* helper::remove on a directory that does not match: the recursive call
Recurse ==
    /\ At("is_dir")
    /\ is_dir(fs, Child)
    /\ stack' = Append([stack EXCEPT ![Len(stack)] = Advanced], Call(Child))
    /\ out' = out \cup {Event("Call", Child)}
    /\ UNCHANGED <<fs, engine, json, configs, dryrun, pc, vres, eres, idx, walks,
                   fs0, fsStart>>

\* helper::remove on any other child: nothing
Skip ==
    /\ At("is_dir")
    /\ ~is_dir(fs, Child)
    /\ stack' = [stack EXCEPT ![Len(stack)] = Advanced]
    /\ UNCHANGED <<fs, engine, json, configs, dryrun, pc, vres, eres, idx, out,
                   walks, fs0, fsStart>>

\* helper::remove, the end of the loop over the children
RemoveReturn ==
    /\ At("loop")
    /\ Top.children = <<>>
    /\ Return
    /\ UNCHANGED <<fs, engine, json, configs, dryrun, pc, vres, eres, out, fs0,
                   fsStart>>

Next ==
    \/ Validate
    \/ ExecuteCall
    \/ ExecuteRule
    \/ ExecuteReturn
    \/ RemoveEnter
    \/ Childern
    \/ ChildernEntry
    \/ ChildernReturn
    \/ RemoveMatched
    \/ ReportMatched
    \/ NoMatch
    \/ RemoveItem
    \/ RemoveFile
    \/ RemoveDirAll
    \/ RemoveDirAllLink
    \/ RemoveDirAllOpen
    \/ RemoveDirAllEntry
    \/ RemoveDirAllUnlink
    \/ Recurse
    \/ Skip
    \/ RemoveReturn

Spec == Init /\ [][Next]_vars

\* ------------------------------------------------------------------ environment
\* Every path the run still holds: the destinations of the rules whose walk
\* has not ended and, for each call in progress, its destination, its
\* children and the entries its iterator has still to give
Held ==
    {configs[i].destination : i \in {j \in DOMAIN configs : j >= idx}}
    \cup UNION {{stack[k].dir}
                \cup {stack[k].children[i] : i \in DOMAIN stack[k].children}
                \cup {join(stack[k].dir, n) : n \in stack[k].pending}
                : k \in DOMAIN stack}
\* The nodes another process can unlink or rmdir: those without entries
Leaves(f) ==
    {p \in DOMAIN f \ {<<>>} : ~\E q \in DOMAIN f : IsProperPrefix(p, q)}
\* The iterators that hold the entry p of the directory they have opened:
\* <<k, 0>> for that of helper::childern in call k, <<k, j>> for that of the
\* j-th directory fs::remove_dir_all has open in call k
Reading(p) ==
    {<<k, 0>> : k \in {i \in DOMAIN stack : /\ stack[i].at = "entries"
                                            /\ stack[i].node = Parent(p)
                                            /\ p[Len(p)] \in stack[i].pending}}
    \cup UNION {{<<k, j>> : j \in {i \in DOMAIN stack[k].open :
                                     /\ stack[k].open[i].node = Parent(p)
                                     /\ p[Len(p)] \in stack[k].open[i].pending}}
                : k \in DOMAIN stack}

\* Another process removes one entry that the run holds, or one below it,
\* between two system calls of the program after validate has returned.  An
\* iterator that had already fetched the entry still gives it; one that had
\* not does not.
Vanish ==
    /\ pc \in {"validated", "executing"}
    /\ \E p \in Leaves(fs) :
         /\ \E q \in Held : \/ Lookup(fs, q, FALSE) = Some(p)
                            \/ \E n \in Lookup(fs, q, TRUE) : IsPrefix(n, p)
         /\ fs' = Drop(fs, {p})
         /\ \E unfetched \in SUBSET Reading(p) :
               stack' = [k \in DOMAIN stack |->
                           [stack[k] EXCEPT
                              !.pending = IF <<k, 0>> \in unfetched
                                          THEN @ \ {p[Len(p)]} ELSE @,
                              !.open = [j \in DOMAIN stack[k].open |->
                                          IF <<k, j>> \in unfetched
                                          THEN [stack[k].open[j] EXCEPT
                                                  !.pending = @ \ {p[Len(p)]}]
                                          ELSE stack[k].open[j]]]]
    /\ UNCHANGED <<engine, json, configs, dryrun, pc, vres, eres, idx, out,
                   walks, fs0, fsStart>>

NextEnv == Next \/ Vanish

\* The inputs of the runs whose termination is checked: one rule of either
\* kind, with any of the exclusion lists when given on the command line, or
\* in a document that names another destination (a directory below, a file,
\* a missing path)
LiveInputs ==
    UNION {
        {[engine |-> Engine(None, Some(r.destination), Some(r.kind),
                            Some(r.patterns), r.exclude, dry),
          json |-> Garbage]
            : r \in {q \in RulesAt(DestPath) : q.patterns = <<sBuild, sTmp>>}}
        \cup {[engine |-> ConfigEngine(<<nRulesJson>>, dry), json |-> Json(TRUE, <<r>>)]
                : r \in UNION {SmallRulesAt(o) : o \in OtherDests}}
        : dry \in BOOLEAN}

\* The program runs to its end (a step it can take is taken) while other
\* processes may delete entries.
FairEnvSpec == InitWith(LiveTrees, LiveInputs) /\ [][NextEnv]_vars /\ WF_vars(Next)

\* ------------------------------------------------------------------ properties
\* The rule whose walk is in progress or was the last to end, once a walk
\* has started
Walked == walks # <<>>
Cur == IF stack # <<>> THEN idx ELSE idx - 1
CurRule == configs[Cur]
CurExclude == unwrap_or_default(CurRule.exclude)
Said(ev, path) == [rule |-> Cur, ev |-> ev, path |-> path] \in out
SaidOf(ev) == {e \in out : e.rule = Cur /\ e.ev = ev}
ErrorsOf(i) == {e \in out : e.rule = i /\ e.ev \in {"ErrorList", "ErrorRemove"}}
RemoveErrorsOf(i) == {e \in out : e.rule = i /\ e.ev = "ErrorRemove"}
\* The node is below the directory the destination of the current rule
\* leads to.
Below(p) ==
    \E d \in Lookup(fsStart, CurRule.destination, TRUE) : IsProperPrefix(d, p)
\* A walk has just returned to execute.
RuleFinished == pc \in {"executing", "done"} /\ stack = <<>> /\ idx >= 2

\* The exclusion list of the current rule, in lower case
LoweredExclude == {to_lowercase(CurExclude[i]) : i \in DOMAIN CurExclude}
\* The name of a node is, ignoring case, in the list.
NameIn(lowered, p) == p # <<>> /\ to_lowercase(p[Len(p)]) \in lowered
\* The name of a node is in the exclusion list of the current rule.
NameExcluded(p) == NameIn(LoweredExclude, p)
\* The nodes handed to the remover: a match was reported on a path that
\* names them.
Handed == UNION {Lookup(fsStart, e.path, FALSE) : e \in SaidOf("Removing")}
\* The nodes the walk was called on: those its paths lead to.
Entered == UNION {Lookup(fsStart, e.path, TRUE) : e \in SaidOf("Call")}
\* Some directory strictly above the node is among the handed ones.
MatchedAbove(handed, p) ==
    \E a \in handed : IsProperPrefix(a, p) /\ fsStart[a].type = "dir"
\* The nodes whose removal was reported as failed
Failed == UNION {Lookup(fsStart, e.path, FALSE) : e \in SaidOf("ErrorRemove")}
\* The nodes fs::remove_dir_all is at work on
Underway ==
    IF stack # <<>> /\ Top.at \in {"openat", "readdir"}
    THEN Lookup(fsStart, Child, FALSE) ELSE {}
\* Some directory strictly above the node was handed to the remover, and is
\* gone too, or its removal was reported as failed or has not ended.
RemovedWith(handed, failed, p) ==
    \E a \in handed :
        /\ IsProperPrefix(a, p)
        /\ fsStart[a].type = "dir"
        /\ (a \notin DOMAIN fs \/ a \in failed \/ a \in Underway)

\* C1: a dry run leaves the filesystem as it was when the program started,
\* whatever the rules and the tree.
DryRunNoEffect == engine.dryrun => fs = fs0
\* A dry run has ended after reporting a match.
DryRunReported ==
    /\ pc = "done"
    /\ dryrun
    /\ \E e \in out : e.ev = "Removing"

\* C2 as stated: in a run that is not dry, every excluded entry below the
\* destination stays in the tree and is never recursed into, wherever it sits.
ExclusionEverywhere ==
    (Walked /\ ~dryrun) =>
        \A p \in DOMAIN fsStart :
            (Below(p) /\ NameExcluded(p)) =>
                /\ p \in DOMAIN fs
                /\ p \notin Entered
\* C2 as amended: no path that ends in an excluded name is handed to the
\* remover or recursed into, even when patterns names it; an entry with an
\* excluded name is never handed to the remover, and leaves the tree only
\* from inside a directory above it that matched a Folder rule and was handed
\* to the remover, which deletes what the directory holds before the
\* directory: that directory is gone as well, or its removal was reported as
\* failed.
ExclusionPrecedence ==
    (Walked /\ ~dryrun /\ CurExclude # <<>>) =>
        LET handed == Handed
            failed == Failed
            lowered == LoweredExclude
        IN  /\ \A e \in SaidOf("Removing") \cup SaidOf("Call") :
                  ~NameIn(lowered, e.path)
            /\ \A p \in DOMAIN fsStart :
                  NameIn(lowered, p) =>
                      /\ p \notin handed
                      /\ p \notin DOMAIN fs =>
                            (CurRule.kind = Folder /\ RemovedWith(handed, failed, p))
\* A run that is not dry has ended and an excluded entry that patterns also
\* names is still there.
ExcludedMatchKept ==
    /\ pc = "done"
    /\ ~dryrun
    /\ \E e \in SaidOf("Exclude") :
         /\ exists(fs, e.path)
         /\ pattern_check(fs, e.path, CurRule.patterns, CurRule.kind) # None

\* C3 as stated: after a File run every directory is still there, after a
\* Folder run every file is still there.
KindWholeTree ==
    (Walked /\ ~dryrun) =>
        \A p \in DOMAIN fsStart :
            /\ (CurRule.kind = File /\ fsStart[p].type = "dir") => p \in DOMAIN fs
            /\ (CurRule.kind = Folder /\ fsStart[p].type = "file") => p \in DOMAIN fs
\* C3 as amended: a File rule removes no directory; a Folder rule hands no
\* file to the remover, and a file is gone after it only from inside a
\* directory above it that matched and was handed to the remover, which
\* deletes what the directory holds before the directory: that directory is
\* gone as well, or its removal was reported as failed.
KindDiscrimination ==
    (Walked /\ ~dryrun) =>
        LET handed == Handed
            failed == Failed
        IN  \A p \in DOMAIN fsStart :
               /\ (CurRule.kind = File /\ fsStart[p].type = "dir") =>
                      (p \in DOMAIN fs /\ p \notin handed)
               /\ (CurRule.kind = Folder /\ fsStart[p].type = "file") =>
                      /\ p \notin handed
                      /\ p \notin DOMAIN fs => RemovedWith(handed, failed, p)
\* A File run has removed a file and left, beside or above it, a directory
\* whose extension is in patterns.
FileRunKeepsDirectory ==
    /\ pc = "done"
    /\ ~dryrun
    /\ CurRule.kind = File
    /\ \E e \in out : e.ev = "Removed"
    /\ \E p \in DOMAIN fs :
         /\ Below(p)
         /\ fs[p].type = "dir"
         /\ find(unwrap_or_default(extension(p)), CurRule.patterns) # None

\* C4: when a rule is run twice in a row, not dry and without a removal
\* failure, the second run reports no match and leaves the tree as the first
\* run left it.
Idempotent ==
    (/\ Walked
     /\ ~dryrun
     /\ Cur >= 2
     /\ configs[Cur] = configs[Cur - 1]
     /\ RemoveErrorsOf(Cur - 1) = {}
     /\ RemoveErrorsOf(Cur) = {}) =>
        /\ fs = fsStart
        /\ ~\E e \in out : e.rule = Cur /\ e.ev = "Removing"
\* The second run of a rule has ended after a first run that removed
\* something.
SecondRunEnded ==
    /\ pc = "done"
    /\ ~dryrun
    /\ Len(configs) >= 2
    /\ configs[Cur] = configs[Cur - 1]
    /\ RemoveErrorsOf(Cur - 1) = {}
    /\ RemoveErrorsOf(Cur) = {}
    /\ \E e \in out : e.rule = Cur - 1 /\ e.ev = "Removed"

\* The paths a walk from dir looks at: the entries of dir that are not
\* excluded and, through those that are directories, the ones below
RECURSIVE Reached(_, _, _)
Reached(f, dir, exclude) ==
    LET kept == {q \in {join(dir, n) : n \in read_dir(f, dir).names} :
                    ~Excluded(q, exclude)}
    IN  kept \cup UNION {Reached(f, q, exclude) : q \in {k \in kept : is_dir(f, k)}}
\* The entries reached from dir through directories that are not excluded,
\* the excluded entries of those directories among them
RECURSIVE Listed(_, _, _)
Listed(f, dir, exclude) ==
    LET all == {join(dir, n) : n \in read_dir(f, dir).names}
    IN  all \cup UNION {Listed(f, q, exclude)
                          : q \in {k \in all : is_dir(f, k) /\ ~Excluded(k, exclude)}}
\* A directory that held only matching files under a File rule without
\* exclusions holds no file after the run.
MatchingFilesGone ==
    (CurRule.kind = File /\ CurExclude = <<>>) =>
        \A d \in {CurRule.destination}
                 \cup Reached(fsStart, CurRule.destination, CurExclude) :
            (/\ is_dir(fsStart, d)
             /\ read_dir(fsStart, d).names # {}
             /\ \A n \in read_dir(fsStart, d).names :
                   pattern_check(fsStart, join(d, n), CurRule.patterns, File)
                       # None) =>
                read_dir(fs, d).names = {}

\* C5 as stated: after a run that is not dry and met no failure, no entry
\* that is reached from the destination through directories that are not
\* excluded matches the rule; and a directory that held only matching files
\* under a File rule without exclusions holds no file.
WalkCompleteEverywhere ==
    (RuleFinished /\ ~dryrun /\ ErrorsOf(Cur) = {}) =>
        /\ \A q \in Listed(fs, CurRule.destination, CurExclude) :
              pattern_check(fs, q, CurRule.patterns, CurRule.kind) = None
        /\ MatchingFilesGone
\* C5 as amended: after a run that is not dry and met no failure, no entry
\* that is reached from the destination through directories that are not
\* excluded, and is not excluded itself, matches the rule; and a directory
\* that held only matching files under a File rule without exclusions holds
\* no file.
WalkComplete ==
    (RuleFinished /\ ~dryrun /\ ErrorsOf(Cur) = {}) =>
        /\ \A q \in Reached(fs, CurRule.destination, CurExclude) :
              pattern_check(fs, q, CurRule.patterns, CurRule.kind) = None
        /\ MatchingFilesGone
\* A run without failure has removed an entry that is not directly in the
\* destination.
RemovedBelowSubdirectory ==
    /\ RuleFinished
    /\ ~dryrun
    /\ ErrorsOf(Cur) = {}
    /\ \E e \in out :
         /\ e.rule = Cur
         /\ e.ev = "Removed"
         /\ Len(components(e.path)) >= Len(components(CurRule.destination)) + 2

\* The extension as C6 words it: the text after the last '.' of the name,
\* none when the name has no '.'
TextAfterLastDot(name) ==
    IF LastDot(name) = 0 THEN None
    ELSE Some(SubSeq(name, LastDot(name) + 1, Len(name)))
\* Names a File rule may meet, beyond those of the trees
nDotTmp == Str(<<".","t","m","p">>)
nATmpBak == Str(<<"a",".","t","m","p",".","b","a","k">>)
ProbeNames == {nATmp, nReadme, nDTmp, nDotTmp, nATmpBak}
ProbeFs(name, type) ==
    [p \in {<<>>, <<name>>} |->
        IF p = <<>> THEN Entry("dir", "rwx") ELSE Entry(type, "rwx")]
FileMatchAsStated(f, path, patterns) ==
    /\ \E n \in Lookup(f, path, FALSE) : f[n].type = "file"
    /\ TextAfterLastDot(path[Len(path)]) # None
    /\ \E i \in DOMAIN patterns :
          to_lowercase(patterns[i]) =
              to_lowercase(unwrap_or_default(TextAfterLastDot(path[Len(path)])))

\* C6: under a File rule an entry matches exactly when it is a regular file
\* and the text after the last '.' of its name is, ignoring case, one of the
\* patterns; a name without '.' never matches, whatever the patterns are.
FileMatcherAsStated ==
    \A i \in DOMAIN configs :
        configs[i].kind = File =>
            \A n \in ProbeNames : \A t \in {"file", "dir"} :
                (pattern_check(ProbeFs(n, t), <<n>>, configs[i].patterns, File) # None)
                    <=> FileMatchAsStated(ProbeFs(n, t), <<n>>, configs[i].patterns)

\* The calls and returns execute makes for n rules
ExpectedWalks(n) ==
    [k \in 1..(2 * n) |->
        <<IF k % 2 = 1 THEN "start" ELSE "end", (k + 1) \div 2, engine.dryrun>>]

\* C7: execute walks the rules one at a time in list order, each once and
\* with the dry-run flag of the command line, the walk of a rule starting at
\* its destination after the walk before it has returned; failures are only
\* reported, and execute ends with Ok after the walk of the last rule.
RunnerOrder ==
    /\ IsPrefix(walks, ExpectedWalks(Len(configs)))
    /\ stack # <<>> =>
          /\ Len(walks) = 2 * idx - 1
          /\ stack[1].dir = configs[idx].destination
    /\ (pc = "executing" /\ stack = <<>>) => Len(walks) = 2 * (idx - 1)
    /\ pc = "done" => (walks = ExpectedWalks(Len(configs)) /\ eres = "Ok")
    /\ eres = "Ok" => pc = "done"
\* execute has returned after a failure in the walk of a rule that was not
\* the last.
LaterRuleWalkedAfterFailure ==
    /\ pc = "done"
    /\ Len(configs) >= 2
    /\ ErrorsOf(1) # {}

\* C8: when validate has returned Ok every rule's destination is an existing
\* directory, so no walk starts on a missing path or on a file.
ValidatedDestinations ==
    /\ vres = "Ok" => \A i \in DOMAIN configs : is_dir(fs0, configs[i].destination)
    /\ \A k \in DOMAIN walks :
          walks[k][1] = "start" => is_dir(fs0, configs[walks[k][2]].destination)

\* Each call of helper::remove in progress was made on an entry of the
\* directory of its caller: its path is the caller's and one more name.
DeeperCalls ==
    \A k \in 2..Len(stack) :
        /\ Len(components(stack[k].dir)) > Len(components(stack[k - 1].dir))
        /\ \E name \in file_name(stack[k].dir) :
              stack[k].dir = join(stack[k - 1].dir, name)
\* The directory each call in progress works on lies deeper in the tree than
\* the directory of its caller.
DeeperDirectories ==
    \A k \in 2..Len(stack) :
        \A n \in Lookup(fs, stack[k].dir, TRUE) :
            \A m \in Lookup(fs, stack[k - 1].dir, TRUE) : Len(n) > Len(m)
\* The directory each call in progress works on is an entry of the directory
\* of its caller, or what a symbolic link among those entries leads to.
DeeperUnlessLink ==
    \A k \in 2..Len(stack) :
        \A n \in Lookup(fs, stack[k].dir, TRUE) :
            \A m \in Lookup(fs, stack[k - 1].dir, TRUE) :
                \/ Parent(n) = m
                \/ \E name \in file_name(stack[k].dir) :
                      /\ Append(m, name) \in DOMAIN fs
                      /\ fs[Append(m, name)].type = "link"
\* The walk of every rule returns and the run ends.
Returns ==
    /\ (stack # <<>>) ~> (stack = <<>>)
    /\ (pc = "validated") ~> (pc = "done")

NothingElseRemoved ==
    Walked =>
        /\ \A p \in DOMAIN fsStart \ DOMAIN fs :
              /\ Below(p)
              /\ ~dryrun
              /\ \/ p \in Handed
                 \/ (CurRule.kind = Folder /\ MatchedAbove(Handed, p))
        /\ \A p \in DOMAIN fs : p \in DOMAIN fsStart /\ fs[p] = fsStart[p]
        /\ \A d \in Lookup(fsStart, CurRule.destination, TRUE) : d \in DOMAIN fs
        /\ \A p \in DOMAIN fsStart : ~Below(p) => p \in DOMAIN fs

====
